---------------------------- MODULE Spec2Model ----------------------------
(***************************************************************************)
(* A model of bbox.py ("Bounding with Gemini"): the decoder                *)
(* extract_bounding_boxes, the renderer draw_bounding_boxes with its       *)
(* helpers, and the run of main that chains them behind the Process        *)
(* button.                                                                 *)
(*                                                                         *)
(* Texts are sequences of one-character strings.  Python floats are IEEE   *)
(* doubles, modelled exactly: a double is a sign, an odd mantissa of at    *)
(* most 53 bits (a sequence of bits, least significant first) and a binary *)
(* exponent, and every arithmetic operation rounds to nearest, ties to     *)
(* even.  An image is an object of a heap; its pixel content is its base   *)
(* content together with the sequence of drawing operations applied to it. *)
(***************************************************************************)
EXTENDS Integers, Sequences, FiniteSets, TLC

(***************************************************************************)
(* Natural numbers as bit sequences, least significant bit first, without  *)
(* high zero bits (the empty sequence is 0).                               *)
(***************************************************************************)
Pow2 ==
    <<1, 2, 4, 8, 16, 32, 64, 128, 256, 512, 1024, 2048, 4096, 8192, 16384, 32768,
      65536, 131072, 262144, 524288, 1048576, 2097152, 4194304, 8388608, 16777216,
      33554432, 67108864, 134217728, 268435456, 536870912, 1073741824>>

\* the w low bits of n
ToBits(n, w) == [j \in 1..w |-> (n \div Pow2[j]) % 2]

\* the index of the highest 1 of b, 0 if it has none
Top(b) ==
    IF \A j \in 1..Len(b) : b[j] = 0 THEN 0
    ELSE CHOOSE j \in 1..Len(b) : b[j] = 1 /\ \A k \in (j + 1)..Len(b) : b[k] = 0

Strip(b) == SubSeq(b, 1, Top(b))

\* the bits of n, 0 <= n < 2^30
BitsOf(n) == Strip(ToBits(n, 30))

Zeros(k) == [j \in 1..k |-> 0]

ShiftLeft(b, k) == IF b = <<>> THEN <<>> ELSE Zeros(k) \o b

\* the number of 0 bits below the lowest 1 of b
LowZeros(b) ==
    IF b = <<>> THEN 0
    ELSE (CHOOSE j \in 1..Len(b) : b[j] = 1 /\ \A k \in 1..(j - 1) : b[k] = 0) - 1

Bit(b, j) == IF j <= Len(b) THEN b[j] ELSE 0

\* The arithmetic works on limbs of LimbBits bits: Limb(b, i) is the number
\* whose bits are b[i], ..., b[i + LimbBits - 1].
LimbBits == 12

Limb(b, i) ==
    Bit(b, i) + 2 * Bit(b, i + 1) + 4 * Bit(b, i + 2) + 8 * Bit(b, i + 3)
      + 16 * Bit(b, i + 4) + 32 * Bit(b, i + 5) + 64 * Bit(b, i + 6)
      + 128 * Bit(b, i + 7) + 256 * Bit(b, i + 8) + 512 * Bit(b, i + 9)
      + 1024 * Bit(b, i + 10) + 2048 * Bit(b, i + 11)

LimbBase == Pow2[LimbBits + 1]

RECURSIVE AddFrom(_, _, _, _)
AddFrom(a, b, i, carry) ==
    IF i > Len(a) /\ i > Len(b) THEN <<carry>>
    ELSE LET t == Limb(a, i) + Limb(b, i) + carry
         IN  ToBits(t % LimbBase, LimbBits) \o AddFrom(a, b, i + LimbBits, t \div LimbBase)

BitsAdd(a, b) == Strip(AddFrom(a, b, 1, 0))

\* a - b for a >= b
RECURSIVE SubFrom(_, _, _, _)
SubFrom(a, b, i, borrow) ==
    IF i > Len(a) THEN <<>>
    ELSE LET t == Limb(a, i) - Limb(b, i) - borrow
         IN  ToBits(t % LimbBase, LimbBits)
                 \o SubFrom(a, b, i + LimbBits, IF t < 0 THEN 1 ELSE 0)

BitsSub(a, b) == Strip(SubFrom(a, b, 1, 0))

\* -1, 0, 1 as a < b, a = b, a > b (both without high zeros)
BitsCmp(a, b) ==
    IF Len(a) > Len(b) THEN 1
    ELSE IF Len(a) < Len(b) THEN -1
    ELSE IF a = b THEN 0
    ELSE LET j == CHOOSE j \in 1..Len(a) :
                      a[j] # b[j] /\ \A k \in (j + 1)..Len(a) : a[k] = b[k]
         IN  IF a[j] > b[j] THEN 1 ELSE -1

\* a * n for a natural n < 2^18
RECURSIVE MulFrom(_, _, _, _)
MulFrom(a, n, i, carry) ==
    IF i > Len(a) THEN ToBits(carry, 30)
    ELSE LET t == Limb(a, i) * n + carry
         IN  ToBits(t % LimbBase, LimbBits) \o MulFrom(a, n, i + LimbBits, t \div LimbBase)

BitsMul(a, n) == Strip(MulFrom(a, n, 1, 0))

(***************************************************************************)
(* IEEE 754 binary64, the float of Python.  A value is                     *)
(* (-1)^neg * m * 2^e with m odd, or zero (m empty, e = 0).  The           *)
(* magnitudes of this program stay far from overflow and underflow, so the *)
(* exponent is unbounded here.                                             *)
(***************************************************************************)
MantissaBits == 53

Canon(neg, bits, e) ==
    LET b == Strip(bits)
        z == LowZeros(b)
    IN  IF b = <<>> THEN [neg |-> FALSE, m |-> <<>>, e |-> 0]
        ELSE [neg |-> neg, m |-> SubSeq(b, z + 1, Len(b)), e |-> e + z]

\* The double nearest to (-1)^neg * (bits + f) * 2^e, where 0 <= f < 1 and f > 0
\* iff sticky; ties go to the even mantissa.
RoundBits(neg, bits, e, sticky) ==
    LET b == Strip(bits)
        k == Len(b) - MantissaBits
    IN  IF k <= 0 THEN Canon(neg, b, e)
        ELSE LET kept  == SubSeq(b, k + 1, Len(b))
                 guard == b[k]
                 rest  == sticky \/ \E j \in 1..(k - 1) : b[j] = 1
                 up    == guard = 1 /\ (rest \/ kept[1] = 1)
             IN  Canon(neg, IF up THEN BitsAdd(kept, <<1>>) ELSE kept, e + k)

FromInt(n) == Canon(n < 0, BitsOf(IF n < 0 THEN -n ELSE n), 0)

FNeg(x) == IF x.m = <<>> THEN x ELSE [x EXCEPT !.neg = ~x.neg]

\* Long division of the remainder r by d < 2^18, LimbBits quotient bits a
\* step, until the quotient has MantissaBits + 2 significant bits or the
\* division is exact.
RECURSIVE DivLoop(_, _, _, _)
DivLoop(r, d, acc, e) ==
    IF r = 0 \/ Top(acc) >= MantissaBits + 2 THEN RoundBits(FALSE, acc, e, r # 0)
    ELSE DivLoop((r * LimbBase) % d, d,
                 ToBits((r * LimbBase) \div d, LimbBits) \o acc, e - LimbBits)

\* Python's a / b for integers a >= 0, b > 0: the correctly rounded quotient.
IntTrueDiv(a, b) == DivLoop(a % b, b, BitsOf(a \div b), 0)

\* Python's x * n for a float x and an integer n >= 0.
FMulInt(x, n) == RoundBits(x.neg, BitsMul(x.m, n), x.e, FALSE)

MinOf(a, b) == IF a < b THEN a ELSE b

\* Python's x + y for floats.
FAdd(x, y) ==
    LET e  == MinOf(x.e, y.e)
        a  == ShiftLeft(x.m, x.e - e)
        b  == ShiftLeft(y.m, y.e - e)
        c  == BitsCmp(a, b)
    IN  IF x.neg = y.neg THEN RoundBits(x.neg, BitsAdd(a, b), e, FALSE)
        ELSE IF c = 0 THEN FromInt(0)
        ELSE IF c > 0 THEN RoundBits(x.neg, BitsSub(a, b), e, FALSE)
        ELSE RoundBits(y.neg, BitsSub(b, a), e, FALSE)

\* Python's x - y for floats.
FSub(x, y) == FAdd(x, FNeg(y))

\* Python's x < y for floats.
FLess(x, y) ==
    LET d == FSub(x, y) IN d.m # <<>> /\ d.neg


(***************************************************************************)
(* Characters and the values json.loads produces.                          *)
(***************************************************************************)
Digit == {"0", "1", "2", "3", "4", "5", "6", "7", "8", "9"}

HexDigit == Digit \cup {"a", "b", "c", "d", "e", "f", "A", "B", "C", "D", "E", "F"}

\* \s of a str pattern (the ASCII part; TLA+ has no \v)
ReSpace == {" ", "\t", "\n", "\r", "\f"}

\* the whitespace json skips between tokens
JsonSpace == {" ", "\t", "\n", "\r"}

\* characters below U+0020, which a strict JSON string may not hold
Control == {"\t", "\n", "\r", "\f"}

DigitVal(c) ==
    CASE c = "0" -> 0 [] c = "1" -> 1 [] c = "2" -> 2 [] c = "3" -> 3
      [] c = "4" -> 4 [] c = "5" -> 5 [] c = "6" -> 6 [] c = "7" -> 7
      [] c = "8" -> 8 [] c = "9" -> 9

\* int() of a string of decimal digits
RECURSIVE IntOf(_)
IntOf(ds) ==
    IF ds = <<>> THEN 0
    ELSE 10 * IntOf(SubSeq(ds, 1, Len(ds) - 1)) + DigitVal(ds[Len(ds)])

JNull == [kind |-> "null"]
JBool(b) == [kind |-> "bool", b |-> b]
JInt(n) == [kind |-> "int", n |-> n]
\* a float keeps the literal it was read from
JFloat(lex) == [kind |-> "float", lex |-> lex]
JStr(s) == [kind |-> "str", s |-> s]
JArr(items) == [kind |-> "list", items |-> items]
\* a dict: its items in insertion order, the keys distinct
JObj(pairs) == [kind |-> "dict", pairs |-> pairs]

Pair(k, v) == [key |-> k, val |-> v]

HasKey(pairs, k) == \E j \in 1..Len(pairs) : pairs[j].key = k

\* d[k] = v on a dict: an existing key keeps its position and takes the new
\* value, a new key goes last.
C3_DictSet_MoveToEnd(pairs, k, v) ==
    Append(SelectSeq(pairs, LAMBDA p : p.key # k), Pair(k, v))

DictSet(pairs, k, v) ==
    IF HasKey(pairs, k)
    THEN [j \in 1..Len(pairs) |->
             IF pairs[j].key = k THEN Pair(k, v) ELSE pairs[j]]
    ELSE Append(pairs, Pair(k, v))

\* dict(pairs) and the dict comprehension: the assignments in order
RECURSIVE DictOf(_, _)
DictOf(items, acc) ==
    IF items = <<>> THEN acc
    ELSE DictOf(Tail(items), DictSet(acc, items[1].key, items[1].val))

At(t, i) == IF i >= 1 /\ i <= Len(t) THEN t[i] ELSE "EOF"

\* the first index >= i whose character is not in cls (Len(t) + 1 if none)
Skip(t, i, cls) ==
    IF i > Len(t) THEN i
    ELSE CHOOSE j \in i..(Len(t) + 1) :
             /\ j = Len(t) + 1 \/ t[j] \notin cls
             /\ \A k \in i..(j - 1) : t[k] \in cls

\* the first index >= i whose character is in cls (Len(t) + 1 if none)
Find(t, i, cls) ==
    IF i > Len(t) THEN i
    ELSE CHOOSE j \in i..(Len(t) + 1) :
             /\ j = Len(t) + 1 \/ t[j] \in cls
             /\ \A k \in i..(j - 1) : t[k] \notin cls

StartsWith(t, i, w) ==
    i + Len(w) - 1 <= Len(t) /\ SubSeq(t, i, i + Len(w) - 1) = w

(***************************************************************************)
(* The pattern of the fallback,                                            *)
(*   "([^"]+)":\s*\[(\d+),\s*(\d+),\s*(\d+),\s*(\d+)\]                     *)
(* Every repetition is followed by a character outside its class, so a     *)
(* match at a position, if there is one, is unique and greedy matching     *)
(* finds it without backtracking.                                          *)
(***************************************************************************)
Fail == [ok |-> FALSE]

\* (\d+) then the literal `close`, from i: the digits and the index after close
ReNumber(t, i, close) ==
    LET j == Skip(t, i, Digit)
    IN  IF j > i /\ At(t, j) = close
        THEN [ok |-> TRUE, digits |-> SubSeq(t, i, j - 1), end |-> j + 1]
        ELSE Fail

MatchAt(t, i) ==
    IF At(t, i) # "\"" THEN Fail
    ELSE
    LET q == Find(t, i + 1, {"\""})
    IN  IF ~(q > i + 1 /\ At(t, q) = "\"" /\ At(t, q + 1) = ":") THEN Fail
        ELSE
        LET b == Skip(t, q + 2, ReSpace)
        IN  IF At(t, b) # "[" THEN Fail
            ELSE
            LET n1 == ReNumber(t, b + 1, ",")
            IN  IF ~n1.ok THEN Fail ELSE
            LET n2 == ReNumber(t, Skip(t, n1.end, ReSpace), ",")
            IN  IF ~n2.ok THEN Fail ELSE
            LET n3 == ReNumber(t, Skip(t, n2.end, ReSpace), ",")
            IN  IF ~n3.ok THEN Fail ELSE
            LET n4 == ReNumber(t, Skip(t, n3.end, ReSpace), "]")
            IN  IF ~n4.ok THEN Fail
                ELSE [ok |-> TRUE,
                      label |-> SubSeq(t, i + 1, q - 1),
                      coords |-> <<n1.digits, n2.digits, n3.digits, n4.digits>>,
                      start |-> i,
                      end |-> n4.end]

\* re.findall: the non-overlapping matches, leftmost first; after a match the
\* scan resumes where the match ended.
RECURSIVE FindAllFrom(_, _)
FindAllFrom(t, i) ==
    LET q == Find(t, i, {"\""})
        m == MatchAt(t, q)
    IN  IF q > Len(t) THEN <<>>
        ELSE IF m.ok THEN <<m>> \o FindAllFrom(t, m.end)
        ELSE FindAllFrom(t, q + 1)

findall(t) == FindAllFrom(t, 1)

\* list(map(int, coords))
IntList(coords) == JArr([j \in 1..Len(coords) |-> JInt(IntOf(coords[j]))])

\* {label: list(map(int, coords)) for label, *coords in matches}
MatchItems(matches) ==
    [j \in 1..Len(matches) |-> Pair(matches[j].label, IntList(matches[j].coords))]

DictComprehension(matches) == JObj(DictOf(MatchItems(matches), <<>>))

(***************************************************************************)
(* json.loads(text), strict: a result [ok, val, end] is the value read and *)
(* the index after it; ok = FALSE is a JSONDecodeError.  \uXXXX escapes    *)
(* are read as one opaque character (no text of this model holds one).     *)
(***************************************************************************)
Unescape(c) ==
    CASE c = "\"" -> "\"" [] c = "\\" -> "\\" [] c = "/" -> "/"
      [] c = "n" -> "\n" [] c = "t" -> "\t" [] c = "r" -> "\r"
      [] c = "f" -> "\f" [] c = "b" -> "\\b"

\* the characters of a string whose opening quote is before i: the plain run up
\* to the next quote, backslash or control character, then that character
RECURSIVE ScanString(_, _, _)
ScanString(t, i, acc) ==
    LET j   == Find(t, i, {"\"", "\\"} \cup Control)
        c   == At(t, j)
        run == acc \o SubSeq(t, i, j - 1)
    IN  IF j > Len(t) THEN Fail
        ELSE IF c = "\"" THEN [ok |-> TRUE, val |-> JStr(run), end |-> j + 1]
        ELSE IF c \in Control THEN Fail
        ELSE IF At(t, j + 1) \in {"\"", "\\", "/", "n", "t", "r", "f", "b"}
             THEN ScanString(t, j + 2, Append(run, Unescape(t[j + 1])))
        ELSE IF At(t, j + 1) = "u"
                /\ \A k \in 2..5 : At(t, j + k) \in HexDigit
             THEN ScanString(t, j + 6,
                     Append(run, "\\u" \o t[j+2] \o t[j+3] \o t[j+4] \o t[j+5]))
        ELSE Fail

\* NUMBER_RE: (-?(?:0|[1-9]\d*))(\.\d+)?([eE][-+]?\d+)?
ScanNumber(t, i) ==
    LET d    == IF At(t, i) = "-" THEN i + 1 ELSE i
        iend == IF At(t, d) = "0" THEN d + 1
                ELSE IF At(t, d) \in Digit THEN Skip(t, d, Digit)
                ELSE 0
        fend == IF At(t, iend) = "." /\ At(t, iend + 1) \in Digit
                THEN Skip(t, iend + 1, Digit) ELSE iend
        s    == IF At(t, fend + 1) \in {"-", "+"} THEN fend + 2 ELSE fend + 1
        eend == IF At(t, fend) \in {"e", "E"} /\ At(t, s) \in Digit
                THEN Skip(t, s, Digit) ELSE fend
    IN  IF iend = 0 THEN Fail
        ELSE IF eend = iend
        THEN [ok |-> TRUE, end |-> iend,
              val |-> JInt(IF d = i THEN IntOf(SubSeq(t, d, iend - 1))
                           ELSE 0 - IntOf(SubSeq(t, d, iend - 1)))]
        ELSE [ok |-> TRUE, end |-> eend, val |-> JFloat(SubSeq(t, i, eend - 1))]

\* null, true, false, and the constants json accepts beside them
LiteralChars ==
    << <<"n", "u", "l", "l">>, <<"t", "r", "u", "e">>, <<"f", "a", "l", "s", "e">>,
       <<"N", "a", "N">>, <<"I", "n", "f", "i", "n", "i", "t", "y">>,
       <<"-", "I", "n", "f", "i", "n", "i", "t", "y">> >>

LiteralValues ==
    << JNull, JBool(TRUE), JBool(FALSE), JFloat(<<"N", "a", "N">>),
       JFloat(<<"I", "n", "f">>), JFloat(<<"-", "I", "n", "f">>) >>

ScanLiteral(t, i) ==
    IF \E k \in 1..Len(LiteralChars) : StartsWith(t, i, LiteralChars[k])
    THEN LET k == CHOOSE k \in 1..Len(LiteralChars) : StartsWith(t, i, LiteralChars[k])
         IN  [ok |-> TRUE, val |-> LiteralValues[k], end |-> i + Len(LiteralChars[k])]
    ELSE Fail

RECURSIVE ScanOnce(_, _)
RECURSIVE ScanMembers(_, _, _)
RECURSIVE ScanElements(_, _, _)

\* py_scanstring for the key at i (after its quote), then ':' and the value;
\* then '}' or ',' and the next key
ScanMembers(t, i, acc) ==
    LET k == ScanString(t, i, <<>>)
    IN  IF ~k.ok THEN Fail ELSE
        LET c == Skip(t, k.end, JsonSpace)
        IN  IF At(t, c) # ":" THEN Fail ELSE
            LET v == ScanOnce(t, Skip(t, c + 1, JsonSpace))
            IN  IF ~v.ok THEN Fail ELSE
                LET n     == Skip(t, v.end, JsonSpace)
                    pairs == Append(acc, Pair(k.val.s, v.val))
                    q     == Skip(t, n + 1, JsonSpace)
                IN  IF At(t, n) = "}"
                    THEN [ok |-> TRUE, val |-> JObj(DictOf(pairs, <<>>)), end |-> n + 1]
                    ELSE IF At(t, n) = "," /\ At(t, q) = "\""
                    THEN ScanMembers(t, q + 1, pairs)
                    ELSE Fail

ScanElements(t, i, acc) ==
    LET v == ScanOnce(t, i)
    IN  IF ~v.ok THEN Fail ELSE
        LET n == Skip(t, v.end, JsonSpace)
        IN  IF At(t, n) = "]"
            THEN [ok |-> TRUE, val |-> JArr(Append(acc, v.val)), end |-> n + 1]
            ELSE IF At(t, n) = ","
            THEN ScanElements(t, Skip(t, n + 1, JsonSpace), Append(acc, v.val))
            ELSE Fail

\* scan_once: the value that starts at i
ScanOnce(t, i) ==
    LET c == At(t, i)
        n == Skip(t, i + 1, JsonSpace)
    IN  IF c = "\"" THEN ScanString(t, i + 1, <<>>)
        ELSE IF c = "{"
        THEN (IF At(t, n) = "}" THEN [ok |-> TRUE, val |-> JObj(<<>>), end |-> n + 1]
              ELSE IF At(t, n) = "\"" THEN ScanMembers(t, n + 1, <<>>)
              ELSE Fail)
        ELSE IF c = "["
        THEN (IF At(t, n) = "]" THEN [ok |-> TRUE, val |-> JArr(<<>>), end |-> n + 1]
              ELSE ScanElements(t, n, <<>>))
        ELSE IF c \in {"n", "t", "f"} THEN ScanLiteral(t, i)
        ELSE IF ScanNumber(t, i).ok THEN ScanNumber(t, i)
        ELSE ScanLiteral(t, i)

\* json.loads: leading whitespace, one value, trailing whitespace, the end
json_loads(t) ==
    LET v == ScanOnce(t, Skip(t, 1, JsonSpace))
    IN  IF v.ok /\ Skip(t, v.end, JsonSpace) = Len(t) + 1 THEN v ELSE Fail

(***************************************************************************)
(* Python values as the program uses them.                                 *)
(***************************************************************************)
\* bool(v), the test of `if bboxes:`
Truthy(v) ==
    CASE v.kind = "dict"  -> v.pairs # <<>>
      [] v.kind = "list"  -> v.items # <<>>
      [] v.kind = "str"   -> v.s # <<>>
      [] v.kind = "int"   -> v.n # 0
      [] v.kind = "bool"  -> v.b
      [] v.kind = "null"  -> FALSE
      [] v.kind = "float" -> \E j \in 1..Len(v.lex) :
                                /\ v.lex[j] \in (Digit \ {"0"}) \cup {"N", "I"}
                                /\ \A k \in 1..j : v.lex[k] \notin {"e", "E"}

\* iter(v): the elements a for loop or zip draws from v, or none (TypeError)
Iterable(v) == v.kind \in {"list", "str", "dict"}

Elements(v) ==
    CASE v.kind = "list" -> v.items
      [] v.kind = "str"  -> [j \in 1..Len(v.s) |-> JStr(<<v.s[j]>>)]
      [] v.kind = "dict" -> [j \in 1..Len(v.pairs) |-> JStr(v.pairs[j].key)]

\* the integer of a value that supports `coord / 1000` (a bool is an int; a
\* float supports it too, and no input of this model holds one)
IntValue(v) == IF v.kind = "bool" THEN (IF v.b THEN 1 ELSE 0) ELSE v.n

\* Python's a / b for any integer a and b > 0
TrueDiv(a, b) == IF a < 0 THEN FNeg(IntTrueDiv(0 - a, b)) ELSE IntTrueDiv(a, b)

(***************************************************************************)
(* The inputs of the model.  A text is a concatenation of at most MaxFrags *)
(* fragments, one of the two texts the specification quotes, or the JSON   *)
(* encoding of a list of at most MaxBoxes labelled boxes.                  *)
(***************************************************************************)
MaxFrags == 3

MaxBoxes == 2

Fragments ==
    { <<"\"", "a", "\"", ":", " ", "[", "1", ",", " ", "2", ",", " ", "3", ",", " ", "4", "]">>,
      <<"\"", "b", "\"", ":", "[", "5", "7", "0", ",", "5", "0", "0", ",", "1", "0", ",", "2", "0", "0", "0", "]">>,
      <<"\"", "a", "\"", ":", "[", "9", ",", "9", ",", "9", ",", "9", "]">>,
      <<"{">>,
      <<"}">>,
      <<",">>,
      <<" ">>,
      <<"x">>,
      <<"\"">>,
      <<"\"", "a", "\"", ":">>,
      <<"[", "5", ",", "6", ",", "7", ",", "8", "]">>,
      <<"[", "1", ",", "2", ",", "3", "]">>,
      <<"\f">>,
      <<"7">>,
      <<"n", "u", "l", "l">> }

RECURSIVE FragTexts(_)
FragTexts(k) ==
    IF k = 0 THEN {<<>>}
    ELSE LET shorter == FragTexts(k - 1)
         IN  shorter \cup {t \o f : t \in shorter, f \in Fragments}

DogCatText ==
    <<"H", "e", "r", "e", " ", "a", "r", "e", " ", "t", "h", "e", " ", "r",
      "e", "s", "u", "l", "t", "s", ":", " ", "\"", "d", "o", "g", "\"",
      ":", " ", "[", "0", ",", " ", "0", ",", " ", "5", "0", "0", ",", " ",
      "5", "0", "0", "]", " ", "a", "n", "d", " ", "\"", "c", "a", "t",
      "\"", ":", " ", "[", "5", "0", "0", ",", " ", "5", "0", "0", ",",
      " ", "1", "0", "0", "0", ",", " ", "1", "0", "0", "0", "]">>

CatText ==
    <<"{", "\"", "c", "a", "t", "\"", ":", " ", "[", "1", "0", "0", ",",
      " ", "2", "0", "0", ",", " ", "3", "0", "0", ",", " ", "4", "0", "0",
      "]", "}">>

Labels == {<<"a">>, <<"c", "a", "t">>, <<"d", "o", "g">>}

\* (ymin, xmin, ymax, xmax): the two boxes the specification works out, a box
\* inverted in y that leaves the grid in x, and a box of no area
Boxes ==
    {<<500, 250, 750, 500>>, <<100, 200, 300, 400>>, <<570, 570, 10, 2000>>,
     <<0, 570, 0, 570>>}

Item(label, box) == [label |-> label, box |-> box]

RECURSIVE BoxLists(_)
BoxLists(k) ==
    IF k = 0 THEN {<<>>}
    ELSE LET shorter == BoxLists(k - 1)
         IN  shorter \cup {Append(l, Item(lb, bx)) : l \in shorter, lb \in Labels, bx \in Boxes}

\* the dict a list of labelled boxes denotes
BoxValue(box) == JArr([j \in 1..Len(box) |-> JInt(box[j])])

BoxDict(items) ==
    JObj(DictOf([j \in 1..Len(items) |-> Pair(items[j].label, BoxValue(items[j].box))], <<>>))

DistinctLabels(items) ==
    \A j, k \in 1..Len(items) : items[j].label = items[k].label => j = k

\* str(n) for an integer n
DigitChars == <<"0", "1", "2", "3", "4", "5", "6", "7", "8", "9">>

RECURSIVE NatChars(_)
NatChars(n) ==
    IF n < 10 THEN <<DigitChars[n + 1]>>
    ELSE NatChars(n \div 10) \o <<DigitChars[(n % 10) + 1]>>

IntChars(n) == IF n < 0 THEN <<"-">> \o NatChars(0 - n) ELSE NatChars(n)

\* The JSON text of a list of labelled boxes, as json.dumps writes it with the
\* separators of a style (item separator, key separator) and padding inside
\* the braces.
Styles ==
    { [item |-> <<",">>, key |-> <<":">>, pad |-> <<>>],
      [item |-> <<",", " ">>, key |-> <<":", " ">>, pad |-> <<>>],
      [item |-> <<",", "\n", " ">>, key |-> <<" ", ":", "\t">>, pad |-> <<"\n">>] }

RECURSIVE Join(_, _)
Join(parts, sep) ==
    IF parts = <<>> THEN <<>>
    ELSE IF Len(parts) = 1 THEN parts[1]
    ELSE parts[1] \o sep \o Join(Tail(parts), sep)

EncodeBox(box, st) ==
    <<"[">> \o Join([j \in 1..Len(box) |-> IntChars(box[j])], st.item) \o <<"]">>

EncodeItem(it, st) ==
    <<"\"">> \o it.label \o <<"\"">> \o st.key \o EncodeBox(it.box, st)

Encode(items, st) ==
    <<"{">> \o st.pad
        \o Join([j \in 1..Len(items) |-> EncodeItem(items[j], st)], st.item)
        \o st.pad \o <<"}">>

(***************************************************************************)
(* The state.                                                              *)
(***************************************************************************)
VARIABLES
    text,           \* the argument of extract_bounding_boxes
    origin,         \* the labelled boxes the text was encoded from, if it was
    dpc,            \* where extract_bounding_boxes is
    path,           \* which return of extract_bounding_boxes was taken
    matches,        \* the result of re.findall
    bboxes,         \* the value extract_bounding_boxes returned, the renderer's argument
    heap,           \* the image objects: object id -> size, base content, operations drawn
    image,          \* the object draw_bounding_boxes was given
    returned,       \* the object draw_bounding_boxes returned
    before,         \* the heap when draw_bounding_boxes was called
    rpc,            \* where draw_bounding_boxes is
    idx,            \* the item of bboxes.items() the loop is at
    font, color, ymin, xmin, ymax, xmax, label_width, label_height,
    exc,            \* the exception in flight
    mpc,            \* where main is
    button, uploaded_file, api_key,
    original_image, resized_image,
    response,       \* what generate_content returned
    log             \* the calls and reports of this run of main, in order

decodeVars == <<text, origin, dpc, path, matches>>

drawLocals == <<font, color, ymin, xmin, ymax, xmax, label_width, label_height>>

renderVars == <<heap, image, returned, before, rpc, idx, drawLocals>>

mainVars ==
    <<mpc, button, uploaded_file, api_key, original_image, resized_image, response, log>>

vars == <<decodeVars, bboxes, renderVars, exc, mainVars>>

None == [kind |-> "None"]

NoOrigin == [encoded |-> FALSE, items |-> <<>>]

DecodeIdle ==
    /\ text = <<>>
    /\ origin = NoOrigin
    /\ dpc = "idle"
    /\ path = "none"
    /\ matches = <<>>

RenderIdle ==
    /\ image = 0
    /\ returned = 0
    /\ before = <<>>
    /\ rpc = "idle"
    /\ idx = 0
    /\ font = "none"
    /\ color = "none"
    /\ ymin = FromInt(0) /\ xmin = FromInt(0) /\ ymax = FromInt(0) /\ xmax = FromInt(0)
    /\ label_width = 0 /\ label_height = 0

MainIdle ==
    /\ mpc = "idle"
    /\ button = FALSE
    /\ uploaded_file = None
    /\ api_key = ""
    /\ original_image = 0
    /\ resized_image = 0
    /\ response = None
    /\ log = <<>>

(***************************************************************************)
(* extract_bounding_boxes                                                  *)
(***************************************************************************)
\* try: bboxes = json.loads(text); return bboxes
C2_TryLoads_Skipped ==
    /\ dpc = "try"
    /\ dpc' = "except"
    /\ UNCHANGED <<text, origin, path, matches, bboxes, renderVars, exc, mainVars>>

TryLoads ==
    /\ dpc = "try"
    /\ LET v == json_loads(text)
       IN  IF v.ok
           THEN bboxes' = v.val /\ path' = "strict" /\ dpc' = "returned"
           ELSE bboxes' = bboxes /\ path' = path /\ dpc' = "except"
    /\ UNCHANGED <<text, origin, matches, renderVars, exc, mainVars>>

\* except json.JSONDecodeError: the pattern, re.findall, the dict comprehension
ExceptFindall ==
    /\ dpc = "except"
    /\ matches' = findall(text)
    /\ bboxes' = DictComprehension(matches')
    /\ path' = "fallback"
    /\ dpc' = "returned"
    /\ UNCHANGED <<text, origin, renderVars, exc, mainVars>>

extract_bounding_boxes == TryLoads \/ ExceptFindall

Texts == FragTexts(MaxFrags) \cup {DogCatText, CatText}

InitDecode ==
    /\ \/ /\ text \in Texts
          /\ origin = NoOrigin
       \/ \E items \in BoxLists(MaxBoxes), st \in Styles :
             /\ text = Encode(items, st)
             /\ origin = [encoded |-> TRUE, items |-> items]
    /\ dpc = "try"
    /\ path = "none"
    /\ matches = <<>>
    /\ bboxes = None
    /\ heap = <<>>
    /\ RenderIdle
    /\ exc = "none"
    /\ MainIdle

NextDecode == extract_bounding_boxes

SpecDecode == InitDecode /\ [][NextDecode]_vars

(***************************************************************************)
(* draw_bounding_boxes and its helpers.  The drawing primitives are        *)
(* recorded, not rasterised: an operation of ImageDraw is appended to the  *)
(* operations of the image it draws on.                                    *)
(***************************************************************************)
\* (width, height) of the images
Sizes == {<<400, 800>>, <<1000, 1000>>}

NewImage(size, base, ops) == [size |-> size, base |-> base, ops |-> ops]

HexChars ==
    <<"0", "1", "2", "3", "4", "5", "6", "7", "8", "9", "a", "b", "c", "d", "e", "f">>

RECURSIVE HexFormat(_, _)
HexFormat(n, width) ==
    IF width = 0 THEN ""
    ELSE HexFormat(n \div 16, width - 1) \o HexChars[(n % 16) + 1]

\* the values random.randint(0, 0xFFFFFF) takes in this model
RandomInts == {255, 11259375}

\* generate_random_color: "#{:06x}".format(random.randint(0, 0xFFFFFF))
generate_random_color == {"#" \o HexFormat(n, 6) : n \in RandomInts}

\* get_font: the bundled font if the file exists and loads, else the default
get_font == {"NotoSansCJK-Regular.ttc", "default"}

\* font.getbbox(label): (left, top, right, bottom), a function of the font and
\* the text; the default font is a fixed-pitch bitmap, the bundled one has
\* bearings
getbbox(f, label) ==
    IF f = "default" THEN <<0, 0, 6 * Len(label), 11>>
    ELSE <<1, 6, 1 + 11 * Len(label), 24>>

\* [height, width, height, width] for an image of size (width, height)
C7_Dims_Swapped(size) == <<size[1], size[2], size[1], size[2]>>

Dims(size) == <<size[2], size[1], size[2], size[1]>>

\* coord / 1000 * dim
Scale(coord, dim) == FMulInt(TrueDiv(IntValue(coord), 1000), dim)

\* [coord / 1000 * dim for coord, dim in zip(bbox, [height, width, height, width])]
ScaledBox(els, size) == [j \in 1..4 |-> Scale(els[j], Dims(size)[j])]

Rectangle(xy, outline, fill, width) ==
    [op |-> "rectangle", xy |-> xy, outline |-> outline, fill |-> fill, width |-> width]

TextOp(xy, txt, fill) == [op |-> "text", xy |-> xy, text |-> txt, fill |-> fill]

\* the operations of draw_text_with_outline(draw, text, (x, y), font, "white", "black")
C9_TextOps_WhiteFirst(txt, x, y, text_color, outline_color) ==
    << TextOp(<<x, y>>, txt, text_color),
       TextOp(<<FSub(x, FromInt(1)), FSub(y, FromInt(1))>>, txt, outline_color),
       TextOp(<<FAdd(x, FromInt(1)), FSub(y, FromInt(1))>>, txt, outline_color),
       TextOp(<<FSub(x, FromInt(1)), FAdd(y, FromInt(1))>>, txt, outline_color),
       TextOp(<<FAdd(x, FromInt(1)), FAdd(y, FromInt(1))>>, txt, outline_color) >>

TextOps(txt, x, y, text_color, outline_color) ==
    << TextOp(<<FSub(x, FromInt(1)), FSub(y, FromInt(1))>>, txt, outline_color),
       TextOp(<<FAdd(x, FromInt(1)), FSub(y, FromInt(1))>>, txt, outline_color),
       TextOp(<<FSub(x, FromInt(1)), FAdd(y, FromInt(1))>>, txt, outline_color),
       TextOp(<<FAdd(x, FromInt(1)), FAdd(y, FromInt(1))>>, txt, outline_color),
       TextOp(<<x, y>>, txt, text_color) >>

\* [xmin, ymin, xmin + label_width, ymin + label_height]
C8_PlateXY_FromMax(x0, y0, x1, y1, lw, lh) ==
    <<FSub(x1, FromInt(lw)), FSub(y1, FromInt(lh)), x1, y1>>

PlateXY(x0, y0, x1, y1, lw, lh) ==
    <<x0, y0, FAdd(x0, FromInt(lw)), FAdd(y0, FromInt(lh))>>

Drawn(ops) == heap' = [heap EXCEPT ![image].ops = @ \o ops]

Raise(e) == rpc' = "raised" /\ exc' = e

\* draw = ImageDraw.Draw(image); width, height = image.size; font = get_font(20);
\* bboxes.items()
C6_EnterDraw_Background ==
    /\ rpc = "start"
    /\ font' \in get_font
    /\ idx' = 0
    /\ IF bboxes.kind = "dict"
       THEN rpc' = "loop" /\ exc' = exc
       ELSE Raise("AttributeError")
    /\ Drawn(<<Rectangle(<<FromInt(0), FromInt(0), FromInt(heap[image].size[1]),
                           FromInt(heap[image].size[2])>>, "None", "white", 1)>>)
    /\ UNCHANGED <<decodeVars, bboxes, image, returned, before,
                   color, ymin, xmin, ymax, xmax, label_width, label_height, mainVars>>

EnterDraw ==
    /\ rpc = "start"
    /\ font' \in get_font
    /\ idx' = 0
    /\ IF bboxes.kind = "dict"
       THEN rpc' = "loop" /\ exc' = exc
       ELSE Raise("AttributeError")
    /\ UNCHANGED <<decodeVars, bboxes, heap, image, returned, before,
                   color, ymin, xmin, ymax, xmax, label_width, label_height, mainVars>>

\* for label, bbox in bboxes.items():
ForNext ==
    /\ rpc = "loop"
    /\ idx < Len(bboxes.pairs)
    /\ idx' = idx + 1
    /\ rpc' = "scale"
    /\ UNCHANGED <<decodeVars, bboxes, heap, image, returned, before, drawLocals,
                   exc, mainVars>>

\* return image
ReturnImage ==
    /\ rpc = "loop"
    /\ idx = Len(bboxes.pairs)
    /\ returned' = image
    /\ rpc' = "returned"
    /\ UNCHANGED <<decodeVars, bboxes, heap, image, before, idx, drawLocals,
                   exc, mainVars>>

label == bboxes.pairs[idx].key

bbox == bboxes.pairs[idx].val

First4(els) == SubSeq(els, 1, MinOf(Len(els), 4))

\* color = generate_random_color(); ymin, xmin, ymax, xmax = [...]
ScaleBox ==
    /\ rpc = "scale"
    /\ color' \in generate_random_color
    /\ IF ~Iterable(bbox)
       THEN Raise("TypeError") /\ UNCHANGED <<ymin, xmin, ymax, xmax>>
       ELSE LET els == First4(Elements(bbox))
            IN  IF \E j \in 1..Len(els) : els[j].kind \notin {"int", "bool", "float"}
                THEN Raise("TypeError") /\ UNCHANGED <<ymin, xmin, ymax, xmax>>
                ELSE IF Len(els) < 4
                THEN Raise("ValueError") /\ UNCHANGED <<ymin, xmin, ymax, xmax>>
                ELSE LET b == ScaledBox(els, heap[image].size)
                     IN  /\ ymin' = b[1] /\ xmin' = b[2] /\ ymax' = b[3] /\ xmax' = b[4]
                         /\ rpc' = "outline"
                         /\ exc' = exc
    /\ UNCHANGED <<decodeVars, bboxes, heap, image, returned, before, idx, font,
                   label_width, label_height, mainVars>>

\* draw.rectangle([xmin, ymin, xmax, ymax], outline=color, width=3)
DrawOutline ==
    /\ rpc = "outline"
    /\ Drawn(<<Rectangle(<<xmin, ymin, xmax, ymax>>, color, "None", 3)>>)
    /\ rpc' = "measure"
    /\ UNCHANGED <<decodeVars, bboxes, image, returned, before, idx, drawLocals,
                   exc, mainVars>>

\* the same call under a Pillow that rejects x1 < x0 or y1 < y0 with ValueError
\* (the older ones draw whatever results)
RejectOutline ==
    /\ rpc = "outline"
    /\ FLess(xmax, xmin) \/ FLess(ymax, ymin)
    /\ Raise("ValueError")
    /\ UNCHANGED <<decodeVars, bboxes, heap, image, returned, before, idx, drawLocals,
                   mainVars>>

\* label_bbox = font.getbbox(label); label_width, label_height with the padding
MeasureLabel ==
    /\ rpc = "measure"
    /\ LET label_bbox == getbbox(font, label)
       IN  /\ label_width' = label_bbox[3] - label_bbox[1] + 10
           /\ label_height' = label_bbox[4] - label_bbox[2] + 10
    /\ rpc' = "expand"
    /\ UNCHANGED <<decodeVars, bboxes, heap, image, returned, before, idx, font, color,
                   ymin, xmin, ymax, xmax, exc, mainVars>>

\* if xmax - xmin < label_width: xmax = xmin + label_width; the same for ymax
ExpandBox ==
    /\ rpc = "expand"
    /\ xmax' = IF FLess(FSub(xmax, xmin), FromInt(label_width))
               THEN FAdd(xmin, FromInt(label_width)) ELSE xmax
    /\ ymax' = IF FLess(FSub(ymax, ymin), FromInt(label_height))
               THEN FAdd(ymin, FromInt(label_height)) ELSE ymax
    /\ rpc' = "plate"
    /\ UNCHANGED <<decodeVars, bboxes, heap, image, returned, before, idx, font, color,
                   ymin, xmin, label_width, label_height, exc, mainVars>>

\* draw.rectangle([xmin, ymin, xmin + label_width, ymin + label_height], fill=color)
DrawPlate ==
    /\ rpc = "plate"
    /\ Drawn(<<Rectangle(PlateXY(xmin, ymin, xmax, ymax, label_width, label_height),
                         "None", color, 1)>>)
    /\ rpc' = "text"
    /\ UNCHANGED <<decodeVars, bboxes, image, returned, before, idx, drawLocals,
                   exc, mainVars>>

\* draw_text_with_outline(draw, label, (xmin + 5, ymin + 5), font, "white", "black")
draw_text_with_outline ==
    /\ rpc = "text"
    /\ Drawn(TextOps(label, FAdd(xmin, FromInt(5)), FAdd(ymin, FromInt(5)),
                     "white", "black"))
    /\ rpc' = "loop"
    /\ UNCHANGED <<decodeVars, bboxes, image, returned, before, idx, drawLocals,
                   exc, mainVars>>

draw_bounding_boxes ==
    \/ EnterDraw \/ ForNext \/ ScaleBox \/ DrawOutline \/ RejectOutline
    \/ MeasureLabel \/ ExpandBox \/ DrawPlate \/ draw_text_with_outline
    \/ ReturnImage

\* values that are no mapping from labels to four numbers
Malformed ==
    { JInt(7),
      JObj(<<Pair(<<"a">>, JInt(7))>>),
      JObj(<<Pair(<<"a">>, JArr(<<JInt(1), JInt(2), JInt(3)>>))>>),
      JObj(<<Pair(<<"a">>, JArr(<<JInt(1), JStr(<<"x">>), JInt(3), JInt(4)>>))>>),
      JObj(<<Pair(<<"a">>, JArr(<<JInt(1), JInt(2), JInt(3), JInt(4), JInt(5)>>))>>) }

RenderInputs == {BoxDict(items) : items \in BoxLists(MaxBoxes)} \cup Malformed

InitRender ==
    /\ DecodeIdle
    /\ bboxes \in RenderInputs
    /\ \E size \in Sizes : heap = <<NewImage(size, "photo", <<>>)>>
    /\ image = 1
    /\ returned = 0
    /\ before = heap
    /\ rpc = "start"
    /\ idx = 0
    /\ font = "none"
    /\ color = "none"
    /\ ymin = FromInt(0) /\ xmin = FromInt(0) /\ ymax = FromInt(0) /\ xmax = FromInt(0)
    /\ label_width = 0 /\ label_height = 0
    /\ exc = "none"
    /\ MainIdle

NextRender == draw_bounding_boxes

SpecRender == InitRender /\ [][NextRender]_vars

(***************************************************************************)
(* main: one run of the script behind the Process button.                  *)
(***************************************************************************)
\* what st.file_uploader holds: nothing, an image of some size, a file that is
\* no image (IOError), an image Image.open refuses with DecompressionBombError
Uploads ==
    {None, [kind |-> "corrupt"], [kind |-> "oversized"]}
        \cup {[kind |-> "image", size |-> sz] : sz \in {<<400, 800>>, <<2000, 1000>>}}

\* resize_image(image, max_size=800): int() of the quotient of two positive
\* integers is their integer quotient
resize_image(size) ==
    LET width == size[1]
        height == size[2]
        max_size == 800
    IN  IF width > height
        THEN (IF width > max_size
              THEN <<max_size, (height * max_size) \div width>> ELSE size)
        ELSE (IF height > max_size
              THEN <<(width * max_size) \div height, max_size>> ELSE size)

\* response.text of the replies the model call returns
ResponseTexts == FragTexts(MaxFrags - 1) \cup {DogCatText, CatText}

\* a reply with text, or a blocked reply, whose .text raises ValueError
Responses == {[kind |-> "text", text |-> t] : t \in ResponseTexts} \cup {[kind |-> "blocked"]}

Logged(e) == log' = Append(log, e)

InLog(e) == \E k \in 1..Len(log) : log[k] = e

\* if st.button("Process") and uploaded_file is not None and api_key: ...
\* elif not api_key: st.info(...)
PressProcess ==
    /\ mpc = "idle"
    /\ button' \in BOOLEAN
    /\ uploaded_file' \in Uploads
    /\ api_key' \in {"", "key"}
    /\ IF button' /\ uploaded_file' # None /\ api_key' # ""
       THEN log' = <<"Process">> /\ mpc' = "open"
       ELSE IF api_key' = ""
       THEN log' = <<"st.info">> /\ mpc' = "done"
       ELSE log' = <<>> /\ mpc' = "done"
    /\ UNCHANGED <<decodeVars, bboxes, renderVars, exc, original_image, resized_image,
                   response>>

\* original_image = Image.open(uploaded_file), except IOError: st.error; return
OpenImage ==
    /\ mpc = "open"
    /\ CASE uploaded_file.kind = "image" ->
               /\ heap' = Append(heap, NewImage(uploaded_file.size, "photo", <<>>))
               /\ original_image' = Len(heap) + 1
               /\ Logged("Image.open")
               /\ mpc' = "resize"
               /\ exc' = exc
         [] uploaded_file.kind = "corrupt" ->
               /\ Logged("st.error: not a valid image")
               /\ mpc' = "done"
               /\ UNCHANGED <<heap, original_image, exc>>
         [] uploaded_file.kind = "oversized" ->
               /\ exc' = "DecompressionBombError"
               /\ mpc' = "except"
               /\ UNCHANGED <<heap, original_image, log>>
    /\ UNCHANGED <<decodeVars, bboxes, image, returned, before, rpc, idx, drawLocals,
                   button, uploaded_file, api_key, resized_image, response>>

\* resized_image = resize_image(original_image): image.resize returns a new image
ResizeImage ==
    /\ mpc = "resize"
    /\ heap' = Append(heap, NewImage(resize_image(heap[original_image].size), "photo", <<>>))
    /\ resized_image' = Len(heap) + 1
    /\ Logged("resize_image")
    /\ mpc' = "generate"
    /\ UNCHANGED <<decodeVars, bboxes, image, returned, before, rpc, idx, drawLocals, exc,
                   button, uploaded_file, api_key, original_image, response>>

\* response = model.generate_content([prompt, resized_image]),
\* except GoogleAPIError: st.error; return.  Any other exception of the call
\* reaches the handler of main.
GenerateContent ==
    /\ mpc = "generate"
    /\ \/ /\ response' \in Responses
          /\ Logged("generate_content")
          /\ mpc' = "extract"
          /\ exc' = exc
       \/ /\ log' = log \o <<"generate_content", "st.error: API request failed">>
          /\ mpc' = "done"
          /\ response' = response
          /\ exc' = exc
       \/ /\ Logged("generate_content")
          /\ exc' = "Exception"
          /\ mpc' = "except"
          /\ response' = response
    /\ UNCHANGED <<decodeVars, bboxes, renderVars, button, uploaded_file, api_key,
                   original_image, resized_image>>

\* bboxes = extract_bounding_boxes(response.text): the call
CallExtract ==
    /\ mpc = "extract"
    /\ IF response.kind = "blocked"
       THEN /\ exc' = "ValueError"
            /\ mpc' = "except"
            /\ UNCHANGED <<text, dpc, log>>
       ELSE /\ text' = response.text
            /\ dpc' = "try"
            /\ Logged("extract_bounding_boxes")
            /\ mpc' = "extracting"
            /\ exc' = exc
    /\ UNCHANGED <<origin, path, matches, bboxes, renderVars, button, uploaded_file,
                   api_key, original_image, resized_image, response>>

\* if bboxes: ... else: st.warning(...)
C10_IfBboxes_NotNone ==
    /\ mpc = "extracting"
    /\ dpc = "returned"
    /\ IF bboxes.kind # "null"
       THEN mpc' = "call_draw" /\ log' = log
       ELSE Logged("st.warning: no boxes") /\ mpc' = "done"
    /\ UNCHANGED <<decodeVars, bboxes, renderVars, exc, button, uploaded_file, api_key,
                   original_image, resized_image, response>>

IfBboxes ==
    /\ mpc = "extracting"
    /\ dpc = "returned"
    /\ IF Truthy(bboxes)
       THEN mpc' = "call_draw" /\ log' = log
       ELSE Logged("st.warning: no boxes") /\ mpc' = "done"
    /\ UNCHANGED <<decodeVars, bboxes, renderVars, exc, button, uploaded_file, api_key,
                   original_image, resized_image, response>>

\* image_with_boxes = draw_bounding_boxes(resized_image.copy(), bboxes): the
\* copy and the call
C5_CallDraw_NoCopy ==
    /\ mpc = "call_draw"
    /\ image' = resized_image
    /\ before' = heap
    /\ rpc' = "start"
    /\ Logged("draw_bounding_boxes")
    /\ mpc' = "drawing"
    /\ UNCHANGED <<decodeVars, bboxes, heap, returned, idx, drawLocals, exc, button,
                   uploaded_file, api_key, original_image, resized_image, response>>

CallDraw ==
    /\ mpc = "call_draw"
    /\ heap' = Append(heap, heap[resized_image])
    /\ image' = Len(heap) + 1
    /\ before' = heap'
    /\ rpc' = "start"
    /\ Logged("draw_bounding_boxes")
    /\ mpc' = "drawing"
    /\ UNCHANGED <<decodeVars, bboxes, returned, idx, drawLocals, exc, button,
                   uploaded_file, api_key, original_image, resized_image, response>>

\* st.image(image_with_boxes, ...), the response, the download button
ShowImage ==
    /\ mpc = "drawing"
    /\ rpc = "returned"
    /\ Logged("st.image")
    /\ mpc' = "done"
    /\ UNCHANGED <<decodeVars, bboxes, renderVars, exc, button, uploaded_file, api_key,
                   original_image, resized_image, response>>

\* except Exception as e: st.error(f"An error occurred: ...")
HandleException ==
    /\ mpc = "except" \/ (mpc = "drawing" /\ rpc = "raised")
    /\ Logged("st.error: An error occurred")
    /\ mpc' = "done"
    /\ UNCHANGED <<decodeVars, bboxes, renderVars, exc, button, uploaded_file, api_key,
                   original_image, resized_image, response>>

InitMain ==
    /\ DecodeIdle
    /\ bboxes = None
    /\ heap = <<>>
    /\ RenderIdle
    /\ exc = "none"
    /\ MainIdle

\* the next interaction runs the script again from the top
Rerun ==
    /\ mpc = "done"
    /\ text' = <<>> /\ origin' = NoOrigin /\ dpc' = "idle" /\ path' = "none"
    /\ matches' = <<>>
    /\ bboxes' = None
    /\ heap' = <<>>
    /\ image' = 0 /\ returned' = 0 /\ before' = <<>> /\ rpc' = "idle" /\ idx' = 0
    /\ font' = "none" /\ color' = "none"
    /\ ymin' = FromInt(0) /\ xmin' = FromInt(0) /\ ymax' = FromInt(0) /\ xmax' = FromInt(0)
    /\ label_width' = 0 /\ label_height' = 0
    /\ exc' = "none"
    /\ mpc' = "idle" /\ button' = FALSE /\ uploaded_file' = None /\ api_key' = ""
    /\ original_image' = 0 /\ resized_image' = 0 /\ response' = None /\ log' = <<>>

NextMain ==
    \/ PressProcess \/ OpenImage \/ ResizeImage \/ GenerateContent \/ CallExtract
    \/ extract_bounding_boxes \/ IfBboxes \/ CallDraw
    \/ draw_bounding_boxes \/ ShowImage \/ HandleException \/ Rerun

SpecMain == InitMain /\ [][NextMain]_vars

(***************************************************************************)
(* Properties of extract_bounding_boxes, checked under SpecDecode.         *)
(***************************************************************************)
\* the value [n1, n2, n3, n4] of four integers
FourInts(v, ns) ==
    /\ v.kind = "list"
    /\ Len(v.items) = 4
    /\ \A k \in 1..4 : v.items[k] = JInt(ns[k])

\* C1: extract_bounding_boxes never raises and always returns a mapping from
\* label to box; for a text that holds no label-to-4-integers structure (a bare
\* number, a string, null, an array among them) it returns the empty mapping.
C1_AlwaysReturnsMapping ==
    dpc = "returned" =>
        /\ bboxes.kind = "dict"
        /\ findall(text) = <<>> /\ ~(json_loads(text).ok /\ json_loads(text).val.kind = "dict")
              => bboxes = JObj(<<>>)

\* C2: for a text that is the JSON encoding of a mapping from distinct string
\* labels to arrays of 4 integers, extract_bounding_boxes returns that mapping:
\* the same labels in the same order, each with its 4 values, and the fallback
\* pattern extraction is not used.
C2_StrictReturnsTheMapping ==
    (dpc = "returned" /\ origin.encoded /\ DistinctLabels(origin.items)) =>
        /\ path = "strict"
        /\ matches = <<>>
        /\ bboxes.kind = "dict"
        /\ Len(bboxes.pairs) = Len(origin.items)
        /\ \A j \in 1..Len(origin.items) :
              /\ bboxes.pairs[j].key = origin.items[j].label
              /\ FourInts(bboxes.pairs[j].val, origin.items[j].box)

C2_Witness ==
    /\ dpc = "returned"
    /\ origin.encoded
    /\ Len(origin.items) = 2
    /\ DistinctLabels(origin.items)
    /\ Len(bboxes.pairs) = 2

\* the characters of s that are not in cls
Without(s, cls) == SelectSeq(s, LAMBDA c : c \notin cls)

IsDigits(s) == s # <<>> /\ \A j \in 1..Len(s) : s[j] \in Digit

\* text[m.start .. m.end - 1] reads "<label>": [<int>, <int>, <int>, <int>]
\* with the label and the digits m holds: the quoted label, the colon, and
\* then, white space apart, the bracketed integers; white space stands only
\* after the colon and after a comma
Spells(m) ==
    LET colon == m.start + Len(m.label) + 2
        seg   == SubSeq(text, colon, m.end - 1)
    IN  /\ m.label # <<>>
        /\ \A j \in 1..Len(m.label) : m.label[j] # "\""
        /\ \A k \in 1..4 : IsDigits(m.coords[k])
        /\ m.start >= 1 /\ m.end <= Len(text) + 1
        /\ SubSeq(text, m.start, colon) = <<"\"">> \o m.label \o <<"\"", ":">>
        /\ Without(seg, ReSpace)
              = <<":", "[">> \o m.coords[1] \o <<",">> \o m.coords[2] \o <<",">>
                    \o m.coords[3] \o <<",">> \o m.coords[4] \o <<"]">>
        /\ \A j \in 2..Len(seg) :
              seg[j] \in ReSpace => seg[j - 1] \in ReSpace \cup {":", ","}

\* the positions of text inside no match
Unmatched ==
    {q \in 1..Len(text) :
        \A j \in 1..Len(matches) : q < matches[j].start \/ q >= matches[j].end}

FirstMatch(l) ==
    CHOOSE j \in 1..Len(matches) :
        matches[j].label = l /\ \A k \in 1..(j - 1) : matches[k].label # l

LastMatch(l) ==
    CHOOSE j \in 1..Len(matches) :
        matches[j].label = l /\ \A k \in (j + 1)..Len(matches) : matches[k].label # l

DogCatBoxes ==
    JObj(<< Pair(<<"d", "o", "g">>, JArr(<<JInt(0), JInt(0), JInt(500), JInt(500)>>)),
            Pair(<<"c", "a", "t">>,
                 JArr(<<JInt(500), JInt(500), JInt(1000), JInt(1000)>>)) >>)

\* C3: for a text that fails strict parsing the result is built from the
\* left-to-right, non-overlapping matches of "<label>": [<int>, <int>, <int>,
\* <int>]: every matched label is a key, the keys iterate in order of the first
\* appearance of each label, and a label matched more than once keeps its first
\* position and carries the 4 integers of its last match; the dog-and-cat text
\* yields exactly the two boxes dog then cat.
C3_FallbackScansMatches ==
    (dpc = "returned" /\ path = "fallback") =>
        /\ ~json_loads(text).ok
        /\ \A j \in 1..Len(matches) : Spells(matches[j])
        /\ \A j \in 1..(Len(matches) - 1) : matches[j].end <= matches[j + 1].start
        /\ \A q \in Unmatched : ~MatchAt(text, q).ok
        /\ bboxes.kind = "dict"
        /\ {bboxes.pairs[j].key : j \in 1..Len(bboxes.pairs)}
              = {matches[j].label : j \in 1..Len(matches)}
        /\ \A j, k \in 1..Len(bboxes.pairs) :
              j < k => FirstMatch(bboxes.pairs[j].key) < FirstMatch(bboxes.pairs[k].key)
        /\ \A j \in 1..Len(bboxes.pairs) :
              LET m == matches[LastMatch(bboxes.pairs[j].key)]
              IN  FourInts(bboxes.pairs[j].val, [k \in 1..4 |-> IntOf(m.coords[k])])
        /\ text = DogCatText => bboxes = DogCatBoxes

\* a label matched twice with another label matched in between
C3_Witness ==
    /\ dpc = "returned"
    /\ path = "fallback"
    /\ Len(matches) = 3
    /\ matches[1].label = matches[3].label
    /\ matches[2].label # matches[1].label
    /\ matches[1].coords # matches[3].coords

\* C4: every mapping extract_bounding_boxes returns, on either path, is a
\* LabelledBoxes value: every key is a non-empty string and every value is a
\* sequence of exactly four numbers, each in the closed range [0, 1000].  (No
\* text of this model holds a float, so the numbers here are integers.)
C4_ReturnsLabelledBoxes ==
    (dpc = "returned" /\ bboxes.kind = "dict") =>
        \A j \in 1..Len(bboxes.pairs) :
            /\ bboxes.pairs[j].key # <<>>
            /\ bboxes.pairs[j].val.kind = "list"
            /\ Len(bboxes.pairs[j].val.items) = 4
            /\ \A k \in 1..4 :
                  /\ bboxes.pairs[j].val.items[k].kind = "int"
                  /\ bboxes.pairs[j].val.items[k].n \in 0..1000

(***************************************************************************)
(* Properties of draw_bounding_boxes, checked under SpecRender.  A box     *)
(* that is drawn adds seven operations to the image: its outline, its      *)
(* label plate and five texts.                                             *)
(***************************************************************************)
Ops == heap[image].ops

\* box k has issued its n-th operation
HasOp(k, n) == 7 * (k - 1) + n <= Len(Ops)

OpOf(k, n) == Ops[7 * (k - 1) + n]

\* the j-th of (ymin, xmin, ymax, xmax) of box k
Coord(k, j) == bboxes.pairs[k].val.items[j]

Width == heap[image].size[1]

Height == heap[image].size[2]

\* the double x against the rational p / q (0 <= p, 0 < q): x * q and p brought
\* to one binary scale
Against(x, p, q) ==
    LET xq == BitsMul(x.m, q)
    IN  IF x.e >= 0 THEN [lhs |-> ShiftLeft(xq, x.e), rhs |-> BitsOf(p)]
        ELSE [lhs |-> xq, rhs |-> ShiftLeft(BitsOf(p), 0 - x.e)]

\* |x - p / q| <= (p / q) / 2^k
IsWithin(x, p, q, k) ==
    LET a == Against(x, p, q)
        d == IF BitsCmp(a.lhs, a.rhs) >= 0 THEN BitsSub(a.lhs, a.rhs)
             ELSE BitsSub(a.rhs, a.lhs)
    IN  ~x.neg /\ BitsCmp(ShiftLeft(d, k), a.rhs) <= 0

Floats(ns) == [j \in 1..Len(ns) |-> FromInt(ns[j])]

\* the call has ended, by return or by an exception; the operations it issued
\* are all on the image
Ended == rpc \in {"returned", "raised"}

\* C6: draw_bounding_boxes applied to an empty mapping issues no drawing
\* operation at all and returns an image pixel-identical to its input.
C6_EmptyMappingDrawsNothing ==
    bboxes = JObj(<<>>) =>
        /\ heap = before
        /\ rpc \notin {"raised", "scale", "outline", "measure", "expand", "plate", "text"}
        /\ rpc = "returned" => heap[returned] = before[image]

C6_Witness == bboxes = JObj(<<>>) /\ rpc = "returned" /\ returned = image

\* C7 as stated: the outline of a box (ymin, xmin, ymax, xmax) on an image of
\* width W and height H has the corners xmin*W/1000, ymin*H/1000, xmax*W/1000,
\* ymax*H/1000 (each the double nearest to that quotient).
C7_OutlineCornersExact ==
    \A k \in 1..Len(Ops) :
        (Ended /\ HasOp(k, 1)) =>
            /\ OpOf(k, 1).xy[1] = IntTrueDiv(Coord(k, 2).n * Width, 1000)
            /\ OpOf(k, 1).xy[2] = IntTrueDiv(Coord(k, 1).n * Height, 1000)
            /\ OpOf(k, 1).xy[3] = IntTrueDiv(Coord(k, 4).n * Width, 1000)
            /\ OpOf(k, 1).xy[4] = IntTrueDiv(Coord(k, 3).n * Height, 1000)

\* C7 as amended: the corners of the outline are the doubles coord / 1000 * dim,
\* the two y values scaled by the image height and the two x values by the
\* image width, neither clamped nor reordered; each is xmin*W/1000,
\* ymin*H/1000, xmax*W/1000, ymax*H/1000 up to the rounding of the two
\* floating-point operations (a relative error of at most 2^-51), and exactly
\* that in the two examples: [500, 250, 750, 500] on a 400 by 800 image gives
\* (100, 400)-(200, 600), [100, 200, 300, 400] on a 1000 by 1000 image gives
\* (200, 100)-(400, 300).
C7_OutlineCornersRounded ==
    \A k \in 1..Len(Ops) :
        (Ended /\ HasOp(k, 1)) =>
            LET o == OpOf(k, 1)
                c == [j \in 1..4 |-> Coord(k, j).n]
            IN  /\ o.op = "rectangle" /\ o.width = 3 /\ o.fill = "None"
                /\ o.xy = << Scale(Coord(k, 2), Width), Scale(Coord(k, 1), Height),
                             Scale(Coord(k, 4), Width), Scale(Coord(k, 3), Height) >>
                /\ IsWithin(o.xy[1], c[2] * Width, 1000, 51)
                /\ IsWithin(o.xy[2], c[1] * Height, 1000, 51)
                /\ IsWithin(o.xy[3], c[4] * Width, 1000, 51)
                /\ IsWithin(o.xy[4], c[3] * Height, 1000, 51)
                /\ (c = <<500, 250, 750, 500>> /\ heap[image].size = <<400, 800>>)
                      => o.xy = Floats(<<100, 400, 200, 600>>)
                /\ (c = <<100, 200, 300, 400>> /\ heap[image].size = <<1000, 1000>>)
                      => o.xy = Floats(<<200, 100, 400, 300>>)

\* the first example drawn, and a corner that is not the nearest double of
\* its quotient
C7_Witness ==
    /\ rpc = "returned"
    /\ Len(Ops) = 14
    /\ heap[image].size = <<400, 800>>
    /\ OpOf(1, 1).xy = Floats(<<100, 400, 200, 600>>)
    /\ OpOf(2, 1).xy[1] # IntTrueDiv(Coord(2, 2).n * Width, 1000)

\* getbbox of box k's label with the padding of 10
LabelSize(k) ==
    LET b == getbbox(font, bboxes.pairs[k].key)
    IN  <<b[3] - b[1] + 10, b[4] - b[2] + 10>>

\* C8: for every box, degenerate, inverted or smaller than its label, the
\* filled label plate goes from the box's scaled (xmin, ymin) to
\* (xmin + label_width, ymin + label_height) in the colour of that box's
\* outline: its top-left corner is the top-left corner of the outline, and the
\* expansion of xmax/ymax changes neither xmin, ymin nor the outline drawn.
C8_PlateAtOutlineCorner ==
    /\ \A k \in 1..Len(Ops) :
          (Ended /\ HasOp(k, 2)) =>
              LET out   == OpOf(k, 1)
                  plate == OpOf(k, 2)
              IN  /\ plate.op = "rectangle"
                  /\ plate.fill = out.outline
                  /\ plate.fill \in generate_random_color
                  /\ plate.xy[1] = out.xy[1]
                  /\ plate.xy[2] = out.xy[2]
                  /\ plate.xy[3] = FAdd(out.xy[1], FromInt(LabelSize(k)[1]))
                  /\ plate.xy[4] = FAdd(out.xy[2], FromInt(LabelSize(k)[2]))
                  /\ out.xy[3] = Scale(Coord(k, 4), Width)
                  /\ out.xy[4] = Scale(Coord(k, 3), Height)
    /\ rpc \in {"measure", "expand", "plate", "text"} =>
          /\ HasOp(idx, 1)
          /\ xmin = OpOf(idx, 1).xy[1]
          /\ ymin = OpOf(idx, 1).xy[2]

\* a plate drawn for a box of no area, whose xmax and ymax were expanded, and
\* one for a box that is inverted
C8_Witness ==
    /\ rpc = "returned"
    /\ Len(Ops) = 14
    /\ OpOf(1, 1).xy[3] = OpOf(1, 1).xy[1]
    /\ OpOf(1, 1).xy[4] = OpOf(1, 1).xy[2]
    /\ OpOf(1, 2).xy[3] # OpOf(1, 1).xy[3]
    /\ OpOf(1, 2).xy[4] # OpOf(1, 1).xy[4]
    /\ FLess(OpOf(2, 1).xy[4], OpOf(2, 1).xy[2])
    /\ OpOf(2, 2).xy[2] = OpOf(2, 1).xy[2]

IsText(o, txt, x, y, fill) ==
    /\ o.op = "text"
    /\ o.text = txt
    /\ o.xy = <<x, y>>
    /\ o.fill = fill

\* C9: the drawing operations are ordered: boxes in the mapping's iteration
\* order, every operation of one box before every operation of the next, and
\* within a box the outline rectangle, the filled label plate, the four black
\* texts at the offsets (-1,-1), (+1,-1), (-1,+1), (+1,+1), and the white text
\* at (xmin + 5, ymin + 5) as the last operation of the box.
C9_OperationsInOrder ==
    /\ bboxes.kind # "dict" => Ops = <<>>
    /\ rpc \in {"loop", "returned"} => Len(Ops) = 7 * idx
    /\ rpc = "returned" => idx = Len(bboxes.pairs)
    /\ \A k \in 1..Len(Ops) :
          LET txt == bboxes.pairs[k].key
              x   == FAdd(OpOf(k, 1).xy[1], FromInt(5))
              y   == FAdd(OpOf(k, 1).xy[2], FromInt(5))
              l   == FSub(x, FromInt(1))
              r   == FAdd(x, FromInt(1))
              u   == FSub(y, FromInt(1))
              d   == FAdd(y, FromInt(1))
          IN  Ended =>
              /\ HasOp(k, 1) =>
                    /\ OpOf(k, 1).op = "rectangle"
                    /\ OpOf(k, 1).outline # "None" /\ OpOf(k, 1).fill = "None"
              /\ HasOp(k, 2) =>
                    /\ OpOf(k, 2).op = "rectangle"
                    /\ OpOf(k, 2).outline = "None" /\ OpOf(k, 2).fill # "None"
              /\ HasOp(k, 3) => IsText(OpOf(k, 3), txt, l, u, "black")
              /\ HasOp(k, 4) => IsText(OpOf(k, 4), txt, r, u, "black")
              /\ HasOp(k, 5) => IsText(OpOf(k, 5), txt, l, d, "black")
              /\ HasOp(k, 6) => IsText(OpOf(k, 6), txt, r, d, "black")
              /\ HasOp(k, 7) => IsText(OpOf(k, 7), txt, x, y, "white")

\* two boxes with different labels drawn to the end
C9_Witness ==
    /\ rpc = "returned"
    /\ Len(bboxes.pairs) = 2
    /\ Len(Ops) = 14
    /\ OpOf(1, 7).text = bboxes.pairs[1].key
    /\ OpOf(2, 7).text = bboxes.pairs[2].key
    /\ OpOf(1, 7).fill = "white"
    /\ OpOf(1, 1).xy # OpOf(2, 1).xy

(***************************************************************************)
(* Properties of a run of main, checked under SpecMain.                    *)
(***************************************************************************)
\* C5 as stated: draw_bounding_boxes never mutates the image it is given; it
\* allocates a new image, draws only on that and returns it, so the returned
\* image is another object than the input and the input's pixels are the same
\* after the call as before it.
C5_RendersOnNewImage ==
    rpc = "returned" => returned # image /\ heap[image] = before[image]

\* C5 as amended: draw_bounding_boxes allocates nothing, draws on the image it
\* is given and returns that same object; main hands it resized_image.copy(),
\* so the image drawn on is an object apart from the uploaded image and from
\* resized_image, and those two are the same after the call as before it.
C5_RendersInPlaceOnCopy ==
    rpc # "idle" =>
        /\ rpc = "returned" => returned = image
        /\ Len(heap) = Len(before)
        /\ image \notin {original_image, resized_image}
        /\ \A o \in 1..Len(heap) : o # image => heap[o] = before[o]
        /\ before[image] = before[resized_image]
        /\ heap[image].size = before[image].size
        /\ heap[image].base = before[image].base

C5_Witness ==
    /\ mpc = "drawing"
    /\ rpc = "returned"
    /\ heap[image] # before[image]
    /\ heap[resized_image] = before[resized_image]

\* the log of a run up to the call of draw_bounding_boxes
UpToDraw ==
    << "Process", "Image.open", "resize_image", "generate_content",
       "extract_bounding_boxes", "draw_bounding_boxes" >>

Last(q) == q[Len(q)]

=============================================================================
